---- MODULE Spec2Model ----
(***************************************************************************)
(* Model of ProfilingManager and _configure_profiling of                   *)
(* Hermes/appscale/hermes/stats/stats_app.py.                              *)
(*                                                                         *)
(* The manager keeps, per stats category, a profile log and a periodic     *)
(* profiling task.  Zookeeper DataWatch notifications arrive on the kazoo  *)
(* thread and are handed to the tornado IOLoop with add_callback; the      *)
(* IOLoop then runs, one at a time, the update handlers, the periodic      *)
(* callbacks (ticks) and the callbacks of finished stats futures.          *)
(***************************************************************************)
EXTENDS Integers, Sequences, FiniteSets, TLC

\* ------------------------------------------------------------------ bounds
MaxEvents == 4       \* watch notifications delivered plus stats fetches
                     \* issued in one behaviour
MaxQueue  == 2       \* callbacks waiting in the IOLoop at one time

\* ------------------------------------------------------------- vocabulary
Cats == {"nodes", "processes", "proxies"}

None == 0            \* Python None for a log or task reference

Fields == {"enabled", "interval", "detailed"}

\* The snapshot a stats source returns is opaque to the manager; the model
\* names it after the fetch that produced it.  NoStats stands for no value.
Snapshot(fetch) == fetch

NoStats == 0

\* A raw znode value.  kind "absent" is None, "empty" is the empty string,
\* "garbage" is a non-empty string that is not JSON, "doc" is a JSON object
\* whose keys are `has`; the value of a key that is not in `has` is unused.
\* The documents carry interval 1 or 2, or 0, which is a number the
\* PeriodicCallback constructor rejects.
EmptyDoc == [has |-> {}, enabled |-> FALSE, interval |-> 0, detailed |-> FALSE]

Absent  == [kind |-> "absent"]  @@ EmptyDoc
Empty   == [kind |-> "empty"]   @@ EmptyDoc
Garbage == [kind |-> "garbage"] @@ EmptyDoc

Doc(has, enabled, interval, detailed) ==
  [kind |-> "doc", has |-> has,
   enabled  |-> IF "enabled"  \in has THEN enabled  ELSE FALSE,
   interval |-> IF "interval" \in has THEN interval ELSE 0,
   detailed |-> IF "detailed" \in has THEN detailed ELSE FALSE]

FullDocs ==
  { Doc(Fields, TRUE, 1, FALSE), Doc(Fields, TRUE, 2, TRUE),
    Doc(Fields, FALSE, 1, FALSE), Doc(Fields, FALSE, 1, TRUE),
    Doc(Fields, TRUE, 0, FALSE) }

PartialDocs ==
  { Doc({"enabled"}, FALSE, 0, FALSE),
    Doc({"enabled", "interval"}, TRUE, 1, FALSE),
    Doc({"interval", "detailed"}, FALSE, 1, TRUE) }

RawConfs == {Absent, Empty, Garbage} \cup FullDocs \cup PartialDocs

\* ------------------------------------------------------------------ state
VARIABLES
  profile_log,    \* [Cats -> log id or None]: self.<cat>_profile_log
  profile_task,   \* [Cats -> task id or None]: self.<cat>_profile_task
  logs,           \* sequence of the ProfileLog objects created so far
  tasks,          \* sequence of the PeriodicCallback objects created so far
  callbacks,      \* IOLoop callback queue: handler runs scheduled by the bridge,
                  \* each with the category and the version of its notification
  futures,        \* stats futures issued by ticks whose callback has not run,
                  \* each pending or resolved ("ok", "failed")
  finished,       \* the finished futures, each with what its callback did
  nfetch,         \* number of fetches issued
  ndeliver,       \* number of watch notifications delivered
  applied,        \* per category, whether a document took the enabled branch
                  \* and the detailed value of the latest one that did
  last            \* the last handler run: its input and the version of its
                  \* notification, its outcome, the slot before

vars == <<profile_log, profile_task, logs, tasks, callbacks, futures,
          finished, nfetch, ndeliver, applied, last>>

\* The profiler.write calls that succeeded.
written == {e \in finished : e.outcome = "ok"}

\* The slot of category c as its handler sees it.
Slot(c) ==
  [log      |-> profile_log[c],
   detailed |-> IF profile_log[c] = None THEN FALSE
                ELSE logs[profile_log[c]].write_detailed_stats,
   task     |-> profile_task[c],
   running  |-> IF profile_task[c] = None THEN FALSE
                ELSE tasks[profile_task[c]].running]

NoSlot == [log |-> None, detailed |-> FALSE, task |-> None, running |-> FALSE]

Event(op, c, conf, t, result, prev, version) ==
  [op |-> op, cat |-> c, conf |-> conf, task |-> t, result |-> result,
   prev |-> prev, version |-> version]

Init ==
  /\ profile_log = [c \in Cats |-> None]
  /\ profile_task = [c \in Cats |-> None]
  /\ logs = <<>>
  /\ tasks = <<>>
  /\ callbacks = <<>>
  /\ futures = {}
  /\ finished = {}
  /\ nfetch = 0
  /\ ndeliver = 0
  /\ applied = [c \in Cats |-> [seen |-> FALSE, detailed |-> FALSE]]
  /\ last = Event("init", "nodes", Absent, None, "noconf", NoSlot, 0)

\* ---------------------------------------------------------------- helpers
\* Variant: only processes logs get the flag from the configuration.
HasDetailFlagProcessesOnly(c) == c = "processes"

\* Only ProcessesProfileLog and ProxiesProfileLog get write_detailed_stats.
HasDetailFlag(c) == c \in {"processes", "proxies"}

\* Variant: the handler reads only "enabled" from the parsed document.
RequiredFieldsEnabledOnly(c) == {"enabled"}

\* The keys the handler of category c reads from the parsed document.
RequiredFields(c) ==
  IF HasDetailFlag(c) THEN {"enabled", "interval", "detailed"}
  ELSE {"enabled", "interval"}

\* `if not new_conf`: None and the empty string are both falsy.
IsNoConf(conf) == conf.kind \in {"absent", "empty"}

\* Variant: an empty value is taken as a request to disable.
BranchEmptyDisables(c, conf) ==
  IF IsNoConf(conf) THEN "disabled"
  ELSE IF conf.kind = "garbage" THEN "JsonValueError"
  ELSE IF ~(RequiredFields(c) \subseteq conf.has) THEN "KeyError"
  ELSE IF conf.enabled THEN "enabled"
  ELSE "disabled"

\* Which way the handler of category c goes on the raw value conf:
\* the early return, the exception json.loads or a subscript raises,
\* or one of the two branches of `if enabled ... elif task`.
Branch(c, conf) ==
  IF IsNoConf(conf) THEN "noconf"
  ELSE IF conf.kind = "garbage" THEN "JsonValueError"
  ELSE IF ~(RequiredFields(c) \subseteq conf.has) THEN "KeyError"
  ELSE IF conf.enabled THEN "enabled"
  ELSE "disabled"

\* Variant: a log is created on every enable.
NeedsNewLogAlways(lg) == TRUE

\* `if not self.<cat>_profile_log`: a log is created only when there is none.
NeedsNewLog(lg) == lg = None

\* PeriodicCallback.__init__ raises ValueError unless callback_time > 0.
ValidInterval(interval) == interval * 1000 > 0

\* Variant: stop() stops every task, not only the one it is called on.
stop_all(ts, t) == [u \in DOMAIN ts |-> [ts[u] EXCEPT !.running = FALSE]]

\* Variant: stop() leaves the task running.
stop_noop(ts, t) == ts

\* PeriodicCallback.stop(): the task no longer runs its callback.
stop(ts, t) == [ts EXCEPT ![t].running = FALSE]

\* Variant: start() does not set the task running.
start_noop(ts, t) == ts

\* PeriodicCallback.start().
start(ts, t) == [ts EXCEPT ![t].running = TRUE]

\* Variant: the new task does not take the interval of the configuration.
_configure_profiling_fixed_interval(c, profiler, interval) ==
  [cat |-> c, profiler |-> profiler, interval |-> 1, running |-> FALSE]

\* _configure_profiling: the new PeriodicCallback, bound to the profiler
\* (and to the stats source of category c), not yet started.
_configure_profiling(c, profiler, interval) ==
  [cat |-> c, profiler |-> profiler, interval |-> interval, running |-> FALSE]

\* The log objects after the first half of the enabled branch.
LogsAfterEnable(c, conf) ==
  LET created == IF NeedsNewLog(profile_log[c])
                 THEN Append(logs, [cat |-> c, write_detailed_stats |-> FALSE])
                 ELSE logs
      lg == IF NeedsNewLog(profile_log[c]) THEN Len(logs) + 1
            ELSE profile_log[c]
  IN IF HasDetailFlag(c)
     THEN [created EXCEPT ![lg].write_detailed_stats = conf.detailed]
     ELSE created

LogAfterEnable(c) ==
  IF NeedsNewLog(profile_log[c]) THEN Len(logs) + 1 ELSE profile_log[c]

\* ---------------------------------------------------------------- actions
\* What a handler of category c does to the manager on the raw value conf
\* of the notification with this version: the body shared by the three
\* update_*_profiling_conf handlers.
ApplyConf(c, conf, version) ==
  LET b    == Branch(c, conf)
      old  == profile_task[c]
  IN CASE b \in {"noconf", "JsonValueError", "KeyError"} ->
            /\ last' = Event("update", c, conf, None, b, Slot(c), version)
            /\ UNCHANGED <<profile_log, profile_task, logs, tasks, applied>>
       [] b = "enabled" ->
            LET stopped == IF old # None THEN stop(tasks, old) ELSE tasks
                new     == Len(tasks) + 1
            IN /\ logs' = LogsAfterEnable(c, conf)
               /\ applied' = [applied EXCEPT ![c] =
                                [seen |-> TRUE, detailed |-> conf.detailed]]
               /\ profile_log' = [profile_log EXCEPT ![c] = LogAfterEnable(c)]
               /\ IF ValidInterval(conf.interval)
                  THEN /\ tasks' = start(Append(stopped,
                             _configure_profiling(c, LogAfterEnable(c),
                                                  conf.interval)), new)
                       /\ profile_task' = [profile_task EXCEPT ![c] = new]
                       /\ last' = Event("update", c, conf, new, "enabled",
                                        Slot(c), version)
                  ELSE /\ tasks' = stopped
                       /\ UNCHANGED profile_task
                       /\ last' = Event("update", c, conf, None,
                                        "CallbackValueError", Slot(c), version)
       [] b = "disabled" ->
            /\ IF old # None
               THEN /\ tasks' = stop(tasks, old)
                    /\ profile_task' = [profile_task EXCEPT ![c] = None]
               ELSE UNCHANGED <<tasks, profile_task>>
            /\ last' = Event("update", c, conf, None, "disabled", Slot(c),
                             version)
            /\ UNCHANGED <<profile_log, logs, applied>>

\* Variant: the wrapper runs the handler in the calling thread.
update_in_ioloop_inline(c) ==
  /\ ndeliver + nfetch < MaxEvents
  /\ Len(callbacks) < MaxQueue
  /\ ndeliver' = ndeliver + 1
  /\ \E conf \in RawConfs : ApplyConf(c, conf, ndeliver + 1)
  /\ UNCHANGED <<callbacks, futures, finished, nfetch>>

\* Variant: the wrapper puts the handler at the front of the IOLoop's queue.
update_in_ioloop_front(c) ==
  /\ ndeliver + nfetch < MaxEvents
  /\ Len(callbacks) < MaxQueue
  /\ callbacks' = <<[cat |-> c, version |-> ndeliver + 1]>> \o callbacks
  /\ ndeliver' = ndeliver + 1
  /\ UNCHANGED <<profile_log, profile_task, logs, tasks, futures, finished,
                 nfetch, applied, last>>

\* The kazoo thread calls update_in_ioloop, which only schedules the handler.
\* Nothing reads new_conf before the handler does, so the model draws its
\* value when the handler runs and queues the notification's version.
update_in_ioloop(c) ==
  /\ ndeliver + nfetch < MaxEvents
  /\ Len(callbacks) < MaxQueue
  /\ callbacks' = Append(callbacks, [cat |-> c, version |-> ndeliver + 1])
  /\ ndeliver' = ndeliver + 1
  /\ UNCHANGED <<profile_log, profile_task, logs, tasks, futures, finished,
                 nfetch, applied, last>>

\* The IOLoop runs the oldest scheduled callback: the handler of category c.
UpdateProfilingConf(c, conf) ==
  /\ callbacks # <<>>
  /\ Head(callbacks).cat = c
  /\ callbacks' = Tail(callbacks)
  /\ ApplyConf(c, conf, Head(callbacks).version)
  /\ UNCHANGED <<futures, finished, nfetch, ndeliver>>

update_nodes_profiling_conf(new_conf) ==
  UpdateProfilingConf("nodes", new_conf)

update_processes_profiling_conf(new_conf) ==
  UpdateProfilingConf("processes", new_conf)

update_proxies_profiling_conf(new_conf) ==
  UpdateProfilingConf("proxies", new_conf)

\* The number of fetches task t has issued so far.
FetchesOf(t) ==
  Cardinality({f \in futures : f.task = t})
    + Cardinality({e \in finished : e.task = t})

\* Variant: the task runs its callback once, as a timeout would.
profiling_periodical_callback_once(t) ==
  /\ tasks[t].running
  /\ FetchesOf(t) = 0
  /\ ndeliver + nfetch < MaxEvents
  /\ nfetch' = nfetch + 1
  /\ futures' = futures \cup {[id |-> nfetch + 1, task |-> t, max_age |-> 0,
                                result |-> "pending"]}
  /\ UNCHANGED <<profile_log, profile_task, logs, tasks, callbacks, finished,
                 ndeliver, applied, last>>

\* Variant: the tick lets the stats source answer from its cache.
profiling_periodical_callback_cached(t) ==
  /\ tasks[t].running
  /\ ndeliver + nfetch < MaxEvents
  /\ nfetch' = nfetch + 1
  /\ futures' = futures \cup {[id |-> nfetch + 1, task |-> t, max_age |-> 1,
                                result |-> "pending"]}
  /\ UNCHANGED <<profile_log, profile_task, logs, tasks, callbacks, finished,
                 ndeliver, applied, last>>

\* A tick of task t: the PeriodicCallback runs its callback while running.
profiling_periodical_callback(t) ==
  /\ tasks[t].running
  /\ ndeliver + nfetch < MaxEvents
  /\ nfetch' = nfetch + 1
  /\ futures' = futures \cup {[id |-> nfetch + 1, task |-> t, max_age |-> 0,
                               result |-> "pending"]}
  /\ UNCHANGED <<profile_log, profile_task, logs, tasks, callbacks, finished,
                 ndeliver, applied, last>>

\* The stats source resolves the future of a fetch, with a result ("ok")
\* or with an exception ("failed"); add_future then has the IOLoop run
\* write_stats_callback on it.
get_current_async_done(f, result) ==
  /\ f \in futures
  /\ f.result = "pending"
  /\ futures' = (futures \ {f}) \cup {[f EXCEPT !.result = result]}
  /\ UNCHANGED <<profile_log, profile_task, logs, tasks, callbacks, finished,
                 nfetch, ndeliver, applied, last>>

\* Variant: a callback whose write failed stops the task that issued the
\* fetch and takes it out of its slot.
write_stats_callback_giving_up(f, outcome) ==
  /\ f \in futures
  /\ f.result = IF outcome = "fetch_failed" THEN "failed" ELSE "ok"
  /\ futures' = futures \ {f}
  /\ finished' = finished \cup
       {[log |-> tasks[f.task].profiler, task |-> f.task, fetch |-> f.id,
         max_age |-> f.max_age, outcome |-> outcome,
         stats |-> IF outcome = "fetch_failed" THEN NoStats
                   ELSE Snapshot(f.id)]}
  /\ tasks' = IF outcome = "write_failed" THEN stop(tasks, f.task) ELSE tasks
  /\ profile_task' =
       IF outcome = "write_failed"
       THEN [c \in Cats |-> IF profile_task[c] = f.task THEN None
                            ELSE profile_task[c]]
       ELSE profile_task
  /\ UNCHANGED <<profile_log, logs, callbacks, nfetch, ndeliver, applied,
                 last>>

\* Variant: a callback whose fetch failed stops the task that issued it.
write_stats_callback_stopping(f, outcome) ==
  /\ f \in futures
  /\ f.result = IF outcome = "fetch_failed" THEN "failed" ELSE "ok"
  /\ futures' = futures \ {f}
  /\ finished' = finished \cup
       {[log |-> tasks[f.task].profiler, task |-> f.task, fetch |-> f.id,
         max_age |-> f.max_age, outcome |-> outcome,
         stats |-> IF outcome = "fetch_failed" THEN NoStats
                   ELSE Snapshot(f.id)]}
  /\ tasks' = IF outcome = "fetch_failed" THEN stop(tasks, f.task) ELSE tasks
  /\ UNCHANGED <<profile_log, profile_task, logs, callbacks, nfetch,
                 ndeliver, applied, last>>

\* The IOLoop runs write_stats_callback on the resolved future f.
\* outcome "ok": result() gives stats and profiler.write(stats) succeeds;
\* "fetch_failed": result() raises; "write_failed": profiler.write is
\* called with the stats and raises.  The IOLoop logs an exception a
\* callback raises and goes on.
write_stats_callback(f, outcome) ==
  /\ f \in futures
  /\ f.result = IF outcome = "fetch_failed" THEN "failed" ELSE "ok"
  /\ futures' = futures \ {f}
  /\ finished' = finished \cup
       {[log |-> tasks[f.task].profiler, task |-> f.task, fetch |-> f.id,
         max_age |-> f.max_age, outcome |-> outcome,
         stats |-> IF outcome = "fetch_failed" THEN NoStats
                   ELSE Snapshot(f.id)]}
  /\ UNCHANGED <<profile_log, profile_task, logs, tasks, callbacks, nfetch,
                 ndeliver, applied, last>>

Next ==
  \/ \E c \in Cats : update_in_ioloop(c)
  \/ \E conf \in RawConfs : update_nodes_profiling_conf(conf)
  \/ \E conf \in RawConfs : update_processes_profiling_conf(conf)
  \/ \E conf \in RawConfs : update_proxies_profiling_conf(conf)
  \/ \E t \in DOMAIN tasks : profiling_periodical_callback(t)
  \/ \E f \in futures : get_current_async_done(f, "ok")
  \/ \E f \in futures : get_current_async_done(f, "failed")
  \/ \E f \in futures : write_stats_callback(f, "ok")
  \/ \E f \in futures : write_stats_callback(f, "fetch_failed")
  \/ \E f \in futures : write_stats_callback(f, "write_failed")

Spec == Init /\ [][Next]_vars

\* The IOLoop under fair scheduling: a PeriodicCallback that stays running
\* gets its next tick, and the callback that add_future attached to a
\* resolved future gets run.
Fairness ==
  /\ \A t \in 1..MaxEvents :
       WF_vars(t \in DOMAIN tasks /\ profiling_periodical_callback(t))
  /\ \A id \in 1..MaxEvents :
       WF_vars(\E f \in futures :
                 /\ f.id = id
                 /\ \E outcome \in {"ok", "fetch_failed", "write_failed"} :
                      write_stats_callback(f, outcome))

SpecFair == Spec /\ Fairness

\* ================================================================= claims
\* What the specification calls a malformed payload for category c: content
\* that is not a structured document, or a document without a field the
\* category requires (enabled, interval and, for processes and proxies,
\* detailed).
DocumentedFields(c) ==
  IF c = "nodes" THEN {"enabled", "interval"}
  ELSE {"enabled", "interval", "detailed"}

Malformed(c, conf) ==
  \/ conf.kind = "garbage"
  \/ conf.kind = "doc" /\ ~(DocumentedFields(c) \subseteq conf.has)

Raised == {"JsonValueError", "KeyError", "CallbackValueError"}

HandlerRan == last.op = "update"

TasksOf(c) == {t \in DOMAIN tasks : tasks[t].cat = c}

\* C1: in every reachable state each category has at most one task that is
\* started and not yet stopped.
C1_AtMostOneActiveTask ==
  \A c \in Cats : Cardinality({t \in TasksOf(c) : tasks[t].running}) <= 1

\* C1 witness: a category was enabled again while its task was running, so
\* it has two task instances, the old one stopped and the new one running.
C1_Witness ==
  /\ HandlerRan /\ last.result = "enabled" /\ last.prev.running
  /\ Cardinality(TasksOf(last.cat)) = 2
  /\ Cardinality({t \in TasksOf(last.cat) : tasks[t].running}) = 1

\* C2: once a task has been stopped, no Profile Log write is ever caused by
\* it again; the completion of a fetch it issued before stop() is a no-op.
C2_StoppedTaskNeverWrites ==
  [][\A e \in written' \ written : tasks[e.task].running]_vars

\* C3: handling a malformed payload never raises out of the update handler.
C3_MalformedNeverRaises ==
  (HandlerRan /\ Malformed(last.cat, last.conf)) => last.result \notin Raised

\* C4: handling a malformed payload leaves the category's slot (log
\* reference, detail flag, task reference, running status) as it was.
C4_MalformedKeepsSlot ==
  (HandlerRan /\ Malformed(last.cat, last.conf)) => Slot(last.cat) = last.prev

\* C4 witness: a malformed payload was handled for a category whose task
\* was running, and the slot is as before.
C4_Witness ==
  /\ HandlerRan /\ Malformed(last.cat, last.conf)
  /\ last.prev.running /\ last.prev.log # None
  /\ Slot(last.cat) = last.prev

\* The processes handler has just run on {"enabled": false} with a task running.
C5_EnabledOnlyCase ==
  /\ HandlerRan /\ last.cat = "processes"
  /\ last.conf = Doc({"enabled"}, FALSE, 0, FALSE)
  /\ last.prev.running

\* C5: for processes with a task running, the document {"enabled": false}
\* stops the task and clears the slot's task reference, and the task issues
\* no fetch afterward.
C5_DisableWithOnlyEnabledField ==
  /\ [](C5_EnabledOnlyCase =>
          /\ ~tasks[last.prev.task].running
          /\ profile_task["processes"] = None)
  /\ [][C5_EnabledOnlyCase =>
          \A f \in futures' : f.id > nfetch => tasks[f.task].cat # "processes"]_vars

\* The handler has just taken the enabled branch, to the end, with a task running.
C6_RestartCase ==
  HandlerRan /\ last.result = "enabled" /\ last.prev.running

ReenableCase ==
  /\ HandlerRan /\ last.result = "enabled"
  /\ last.prev.task = None
  /\ \E t \in TasksOf(last.cat) : t # last.task

\* C7 as stated: after enable, disable, enable the log in use is a freshly
\* created instance, not the one the slot held before the disable.
C7_ReenableCreatesFreshLog ==
  ReenableCase => profile_log[last.cat] # last.prev.log

\* C7 amended: after enable, disable, enable the log in use is the instance
\* the slot held before the disable, the one every earlier task of the
\* category was bound to; no log is created.
C7_ReenableReusesLog ==
  ReenableCase =>
    /\ last.prev.log # None
    /\ profile_log[last.cat] = last.prev.log
    /\ \A t \in TasksOf(last.cat) : tasks[t].profiler = last.prev.log
    /\ Cardinality({l \in DOMAIN logs : logs[l].cat = last.cat}) = 1

\* C7 witness: a category was enabled, disabled and enabled again, and its
\* new task runs on the log of the first enable.
C7_Witness ==
  /\ ReenableCase
  /\ tasks[last.task].running
  /\ tasks[last.task].profiler = last.prev.log

\* The handler has just taken the disabled branch with a task running.
C8_DisableCase ==
  HandlerRan /\ last.result = "disabled" /\ last.prev.running

\* C8: a well-formed enabled=false configuration applied to a category with
\* a running task stops the task and makes the slot's task absent, and until
\* the next update is handled no fetch is issued for the category and no
\* write is made to its log.
C8_NoActivityAfterDisable ==
  /\ [](C8_DisableCase =>
          /\ ~tasks[last.prev.task].running
          /\ profile_task[last.cat] = None)
  /\ [][C8_DisableCase =>
          /\ \A f \in futures' : f.id > nfetch => tasks[f.task].cat # last.cat
          /\ \A e \in written' \ written : tasks[e.task].cat # last.cat]_vars

\* C9: handling an empty or absent value changes nothing in the slot,
\* whatever the slot's state was.
C9_EmptyKeepsSlot ==
  (HandlerRan /\ last.conf.kind \in {"absent", "empty"}) =>
    /\ Slot(last.cat) = last.prev
    /\ last.result \notin Raised

\* C9 witness: an empty value was handled while the category's task was
\* running, and the task is still the slot's task and still running.
C9_Witness ==
  /\ HandlerRan /\ last.conf.kind \in {"absent", "empty"}
  /\ last.prev.running
  /\ profile_task[last.cat] = last.prev.task
  /\ tasks[last.prev.task].running

DetailCats == {"processes", "proxies"}

\* C10 as stated: right after a well-formed configuration of processes or
\* proxies was applied, an existing log's detail flag equals the detailed
\* value of that configuration, enabled or not.
C10_DetailFlagFollowsLastConf ==
  (/\ HandlerRan /\ last.cat \in DetailCats
   /\ last.result \in {"enabled", "disabled"}
   /\ profile_log[last.cat] # None)
  => logs[profile_log[last.cat]].write_detailed_stats = last.conf.detailed

\* C10 amended: whenever a log of processes or proxies exists, its detail
\* flag equals the detailed value of the latest configuration of the
\* category that had all its fields and enabled=true; an enabled=false
\* configuration leaves the flag as it is.
C10_DetailFlagFollowsLastEnabled ==
  \A c \in DetailCats :
    profile_log[c] # None =>
      /\ applied[c].seen
      /\ logs[profile_log[c]].write_detailed_stats = applied[c].detailed

\* C10 witness: an enabled=false configuration whose detailed value differs
\* from the log's flag was applied, and the flag is that of the latest
\* enabled=true configuration.
C10_Witness ==
  /\ HandlerRan /\ last.cat \in DetailCats /\ last.result = "disabled"
  /\ profile_log[last.cat] # None
  /\ logs[profile_log[last.cat]].write_detailed_stats # last.conf.detailed
  /\ logs[profile_log[last.cat]].write_detailed_stats
       = applied[last.cat].detailed


\* The handler has just taken the enabled branch, to the end, for a slot
\* that held no task.
C11_FreshEnableCase ==
  HandlerRan /\ last.result = "enabled" /\ last.prev.task = None

FetchFailed(id) ==
  \/ \E f \in futures : f.id = id /\ f.result = "failed"
  \/ \E e \in finished : e.fetch = id /\ e.outcome = "fetch_failed"

\* This step resolves a future with an exception, or runs the callback of
\* a future that resolved with an exception.
FailStep ==
  \E f \in futures :
    \/ f.result = "pending" /\ [f EXCEPT !.result = "failed"] \in futures'
    \/ f.result = "failed" /\ f \notin futures'

\* C12: when the fetch of a tick fails nothing is written for that tick,
\* the owning task stays as it is (running, in its slot), no fetch is issued
\* in its place, and the task's next tick can still issue a fetch.
C12_FailedFetchSkipsWrite ==
  /\ [](\A id \in 1..nfetch :
          FetchFailed(id) =>
            /\ \A e \in finished : e.fetch = id => e.outcome = "fetch_failed"
            /\ \A w \in written : w.fetch # id)
  /\ [](\A e \in finished :
          (/\ e.outcome = "fetch_failed" /\ tasks[e.task].running
           /\ ndeliver + nfetch < MaxEvents)
          => ENABLED profiling_periodical_callback(e.task))
  /\ [][FailStep =>
          /\ tasks' = tasks /\ profile_task' = profile_task
          /\ profile_log' = profile_log /\ logs' = logs
          /\ written' = written
          /\ nfetch' = nfetch
          /\ {f.id : f \in futures'} \subseteq {f.id : f \in futures}]_vars

\* C12 witness: a fetch of a task failed and its callback ran; nothing was
\* written for it, the task is still running in its slot, and a later tick
\* of the same task has issued another fetch.
C12_Witness ==
  \E e \in finished :
    /\ e.outcome = "fetch_failed"
    /\ \A w \in written : w.fetch # e.fetch
    /\ tasks[e.task].running
    /\ profile_task[tasks[e.task].cat] = e.task
    /\ \E f \in futures : f.task = e.task /\ f.id > e.fetch

\* This step of the IOLoop runs an update handler: the oldest scheduled
\* callback leaves the queue.
HandlerStep == callbacks # <<>> /\ callbacks' = Tail(callbacks)

\* This step changes the slot state of category c: its slot, its log, or
\* one of its tasks.
SlotChanges(c) ==
  \/ profile_log'[c] # profile_log[c]
  \/ profile_task'[c] # profile_task[c]
  \/ \E t \in DOMAIN tasks' :
       tasks'[t].cat = c /\ (t \notin DOMAIN tasks \/ tasks'[t] # tasks[t])
  \/ \E l \in DOMAIN logs' :
       logs'[l].cat = c /\ (l \notin DOMAIN logs \/ logs'[l] # logs[l])

\* C13: the handlers run in the order in which the watch delivered the
\* notifications to the bridge: the scheduled callbacks wait in delivery
\* order, each handler run is for the oldest of them and for a later
\* notification than the run before, so that once nothing is waiting the
\* last handler run was for the last notification delivered.
C13_UpdatesAppliedInDeliveryOrder ==
  /\ [](\A i, j \in DOMAIN callbacks :
          i < j => callbacks[i].version < callbacks[j].version)
  /\ [](\A i \in DOMAIN callbacks : last.version < callbacks[i].version)
  /\ []((callbacks = <<>> /\ ndeliver > 0) => last.version = ndeliver)
  /\ [][HandlerStep =>
          /\ last'.version = Head(callbacks).version
          /\ last'.cat = Head(callbacks).cat
          /\ last'.version > last.version]_vars

\* C13 witness: a notification of a category has been handled and the two
\* delivered right after it, for the same category, wait in delivery order.
C13_Witness ==
  /\ HandlerRan
  /\ Len(callbacks) = 2
  /\ callbacks[1].cat = last.cat /\ callbacks[2].cat = last.cat
  /\ callbacks[1].version = last.version + 1
  /\ callbacks[2].version = last.version + 2

\* C14: a handler run of one category leaves the slots, the logs and the
\* tasks of the other two categories as they were, so their running tasks
\* keep running and can still tick.
C14_OtherCategoriesUntouched ==
  /\ [][HandlerStep =>
          \A c \in Cats \ {Head(callbacks).cat} :
            /\ ~SlotChanges(c)
            /\ \A t \in TasksOf(c) :
                 (ENABLED profiling_periodical_callback(t))
                   => tasks'[t].running]_vars
  /\ [](\A c \in Cats \ {last.cat} :
          (/\ HandlerRan /\ profile_task[c] # None
           /\ tasks[profile_task[c]].running
           /\ ndeliver + nfetch < MaxEvents)
          => ENABLED profiling_periodical_callback(profile_task[c]))

\* C14 witness: a handler run stopped the task of its category while the
\* task of another category is running in its slot.
C14_Witness ==
  /\ HandlerRan
  /\ last.prev.task # None
  /\ ~tasks[last.prev.task].running
  /\ \E c \in Cats \ {last.cat} :
       profile_task[c] # None /\ tasks[profile_task[c]].running

\* C15: delivering a notification only schedules the handler: the step
\* appends one callback and changes no slot, log or task; every change to
\* those is made by a handler run, which is one step of the IOLoop.
C15_BridgeOnlySchedules ==
  /\ [][ndeliver' # ndeliver =>
          /\ ndeliver' = ndeliver + 1
          /\ Len(callbacks') = Len(callbacks) + 1
          /\ \A i \in DOMAIN callbacks : callbacks'[i] = callbacks[i]
          /\ \A c \in Cats : ~SlotChanges(c)
          /\ last' = last /\ applied' = applied
          /\ futures' = futures /\ finished' = finished]_vars
  /\ [][(\E c \in Cats : SlotChanges(c)) => HandlerStep]_vars

\* C15 witness: a notification for a category whose task is running has been
\* delivered and waits in the queue; the task is still running in its slot.
C15_Witness ==
  /\ callbacks # <<>>
  /\ HandlerRan
  /\ last.version < Head(callbacks).version
  /\ profile_task[Head(callbacks).cat] # None
  /\ tasks[profile_task[Head(callbacks).cat]].running

\* The callback of the fetch with this id called write() of the log its task
\* was created with, on the snapshot the fetch returned.
WriteCalled(id) ==
  \E e \in finished :
    /\ e.fetch = id
    /\ e.outcome \in {"ok", "write_failed"}
    /\ e.stats = Snapshot(id)
    /\ e.log = tasks[e.task].profiler
    /\ logs[e.log].cat = tasks[e.task].cat

\* A task and a number of fetches it can have issued with an event of the
\* run still left: the task took a notification to create.
TaskFetches ==
  {p \in (1..MaxEvents) \X (0..MaxEvents) : p[1] + p[2] < MaxEvents}

\* C16: under fair scheduling a running task issues a further fetch unless
\* it is stopped first (or the events of the run are used up), however many
\* it has issued; and every fetch that resolved successfully is eventually
\* followed by a call of write() on its snapshot and its category's log.
C16_RunningTaskKeepsFetching ==
  /\ \A p \in TaskFetches :
       (/\ p[1] \in DOMAIN tasks /\ tasks[p[1]].running
        /\ FetchesOf(p[1]) = p[2])
         ~> (/\ p[1] \in DOMAIN tasks
             /\ \/ ~tasks[p[1]].running
                \/ FetchesOf(p[1]) > p[2]
                \/ ndeliver + nfetch >= MaxEvents)
  /\ \A id \in 1..MaxEvents :
       (\E f \in futures : f.id = id /\ f.result = "ok") ~> WriteCalled(id)

\* C16 witness: a task that was never stopped has issued two fetches, and
\* write() has been called for the first one.
C16_Witness ==
  \E t \in DOMAIN tasks :
    /\ tasks[t].running
    /\ FetchesOf(t) >= 2
    /\ \E e \in finished : e.task = t /\ WriteCalled(e.fetch)

\* The fetches issued so far by the tasks of category c, and the writes made
\* to the logs of category c.
FetchesFor(c) ==
  Cardinality({f \in futures : tasks[f.task].cat = c})
    + Cardinality({e \in finished : tasks[e.task].cat = c})

WritesOn(c) == Cardinality({w \in written : logs[w.log].cat = c})

\* C17: every write comes from one fetch that a tick issued with max_age = 0
\* and that resolved successfully: its callback has run once, the value
\* written is the snapshot of that fetch, the log is the one its task was
\* created with, of the task's category, and a task's log never changes; so
\* a category has no more writes than fetches.
C17_WriteComesFromOneFetch ==
  /\ [](\A w \in written :
          /\ w.fetch \in 1..nfetch
          /\ w.max_age = 0
          /\ w.stats = Snapshot(w.fetch)
          /\ w.log = tasks[w.task].profiler
          /\ logs[w.log].cat = tasks[w.task].cat
          /\ \A f \in futures : f.id # w.fetch
          /\ \A e \in finished : e.fetch = w.fetch => e = w)
  /\ [](\A f \in futures : f.max_age = 0 /\ f.id \in 1..nfetch)
  /\ [](\A c \in Cats : WritesOn(c) <= FetchesFor(c))
  /\ [][\A t \in DOMAIN tasks :
          /\ tasks'[t].profiler = tasks[t].profiler
          /\ tasks'[t].cat = tasks[t].cat]_vars

\* C17 witness: a category has had two fetches and one write; the write is
\* in the log of a task that has been replaced since.
C17_Witness ==
  \E w \in written :
    /\ FetchesFor(logs[w.log].cat) = 2
    /\ WritesOn(logs[w.log].cat) = 1
    /\ profile_task[tasks[w.task].cat] # w.task

\* This step runs the callback of a fetch that resolved successfully, and
\* write() raises in it.
WriteFailStep ==
  \E e \in finished' \ finished : e.outcome = "write_failed"

\* C18: when write() fails in a callback, the step changes no task, slot or
\* log, and afterwards the task that issued the fetch, if it is running,
\* can still tick.
C18_WriteFailureKeepsTask ==
  /\ [][WriteFailStep =>
          /\ tasks' = tasks /\ profile_task' = profile_task
          /\ profile_log' = profile_log /\ logs' = logs
          /\ written' = written]_vars
  /\ [](\A e \in finished :
          (/\ e.outcome = "write_failed" /\ tasks[e.task].running
           /\ ndeliver + nfetch < MaxEvents)
          => ENABLED profiling_periodical_callback(e.task))

\* C18 witness: write() failed for a fetch of a task; the task is still
\* running in its slot and a later tick of it has issued another fetch.
C18_Witness ==
  \E e \in finished :
    /\ e.outcome = "write_failed"
    /\ tasks[e.task].running
    /\ profile_task[tasks[e.task].cat] = e.task
    /\ \E f \in futures : f.task = e.task /\ f.id > e.fetch

\* C19: once a slot holds a log, no step clears the reference or puts
\* another log in its place, and a log that exists keeps existing for its
\* category.
C19_LogReferenceIsKept ==
  /\ [][\A c \in Cats :
          profile_log[c] # None => profile_log'[c] = profile_log[c]]_vars
  /\ [][\A l \in DOMAIN logs :
          l \in DOMAIN logs' /\ logs'[l].cat = logs[l].cat]_vars
  /\ [](\A c \in Cats :
          profile_log[c] # None =>
            /\ profile_log[c] \in DOMAIN logs
            /\ logs[profile_log[c]].cat = c)

\* C19 witness: a disable stopped the task of a category and cleared the
\* task reference; the slot still holds the log it held before.
C19_Witness ==
  /\ HandlerRan /\ last.result = "disabled"
  /\ last.prev.task # None /\ last.prev.log # None
  /\ profile_task[last.cat] = None
  /\ profile_log[last.cat] = last.prev.log

\* C20: in every reachable state the task in a slot, if there is one, is
\* running.
C20_SlotTaskIsRunning ==
  \A c \in Cats :
    profile_task[c] # None => tasks[profile_task[c]].running

====
